---- MODULE Spec2Model ----
(***************************************************************************)
(* QCfiles_Merge (app.py): a ZIP archive of CSV/Excel files is extracted,  *)
(* every supported file is read into a table, the column labels of each    *)
(* table are normalised and checked against 16 expected columns, complete  *)
(* tables are projected on those columns and stacked into one table.       *)
(*                                                                         *)
(* A label is a sequence of one-character strings.  A table is a record    *)
(* [columns, rows]; a row is identified by the file it was read from and   *)
(* its position in that file (no branch of app.py looks at cell values).   *)
(* A message is one call of st.warning / st.info / st.error / st.success.  *)
(***************************************************************************)
EXTENDS Integers, Sequences, FiniteSets, TLC

VARIABLES
    extracted_files,  \* the archive: the files of the uploaded ZIP, in namelist order
    pc,               \* position of main(): start, read, validate, merge, done, crashed
    i,                \* position of `for file in extracted_files` (line 53)
    all_dfs,          \* tables read so far (line 49)
    valid_files,      \* names of the files read so far (line 51)
    j,                \* position of `for file, df in zip(valid_files, all_dfs)` (line 98)
    missing_cols,     \* missing_cols of the last validated table (line 106)
    dfs_reorder,      \* tables accepted for the merge (line 96)
    merged_df,        \* <<result of pd.concat>> (line 123), None before
    download,         \* TRUE once the download button is offered (line 138)
    msgs,             \* the st.* calls made so far, in order
    applied           \* label pipeline under study: <<x, normalize(x), normalize(normalize(x))>>

vars == <<extracted_files, pc, i, all_dfs, valid_files, j, missing_cols,
          dfs_reorder, merged_df, download, msgs, applied>>

\* ---------------------------------------------------------------- bounds
MaxFiles == 2      \* files in the archive
MaxRows == 2       \* rows of a table
MaxLabelLen == 4   \* characters of a label whose normalisation is studied alone

\* an optional value is a sequence of at most one element
None == <<>>

\* ---------------------------------------------------------------- characters
Whitespace == {" ", "\t"}

UpperCase == <<"A","B","C","D","E","F","G","H","I","J","K","L","M","N","O","P","Q","R","S","T","U","V","W","X","Y","Z">>

LowerCase == <<"a","b","c","d","e","f","g","h","i","j","k","l","m","n","o","p","q","r","s","t","u","v","w","x","y","z">>

\* str.lower() on one character
LowerChar(c) ==
    IF \E k \in 1..Len(UpperCase) : UpperCase[k] = c
    THEN LowerCase[CHOOSE k \in 1..Len(UpperCase) : UpperCase[k] = c]
    ELSE c

\* str.lower()
Lower(s) == [k \in 1..Len(s) |-> LowerChar(s[k])]

\* str.strip(): leading and trailing whitespace removed
Strip(s) ==
    LET keep == {k \in 1..Len(s) : s[k] \notin Whitespace}
    IN  IF keep = {} THEN <<>>
        ELSE LET lo == CHOOSE k \in keep : \A m \in keep : k <= m
                 hi == CHOOSE k \in keep : \A m \in keep : k >= m
             IN  SubSeq(s, lo, hi)

\* number of leading whitespace characters of s (the greedy \s*)
RECURSIVE SkipWs(_)
SkipWs(s) ==
    IF s # <<>> /\ Head(s) \in Whitespace THEN 1 + SkipWs(Tail(s)) ELSE 0

\* re.sub(r"\s*-\s*", " - ", s): leftmost, greedy, non-overlapping matches
\* (ReplaceHyphenOnly: the pattern "-" in its place, whitespace left where it is)
RECURSIVE ReplaceHyphenOnly(_)
ReplaceHyphenOnly(s) ==
    IF s = <<>> THEN <<>>
    ELSE IF Head(s) = "-" THEN <<" ", "-", " ">> \o ReplaceHyphenOnly(Tail(s))
    ELSE <<Head(s)>> \o ReplaceHyphenOnly(Tail(s))

RECURSIVE ReplaceHyphen(_)
ReplaceHyphen(s) ==
    IF s = <<>> THEN <<>>
    ELSE LET k == SkipWs(s) + 1      \* first character after the whitespace run
         IN  IF k <= Len(s) /\ s[k] = "-"
             THEN LET rest == SubSeq(s, k + 1, Len(s))
                  IN  <<" ", "-", " ">>
                        \o ReplaceHyphen(SubSeq(rest, SkipWs(rest) + 1, Len(rest)))
             ELSE <<Head(s)>> \o ReplaceHyphen(Tail(s))

\* one column label through .str.strip().str.replace(...).str.lower()
NormalizeLabel(s) == Lower(ReplaceHyphen(Strip(s)))

\* df.columns = df.columns.str.strip().str.replace(...).str.lower()
Normalize(labels) == [k \in 1..Len(labels) |-> NormalizeLabel(labels[k])]

\* ---------------------------------------------------------------- expected columns
columns ==
  <<
     <<"E","x","t","e","r","n","a","l"," ","C","o","d","e">>,
     <<"P","r","o","c","e","s","s","i","n","g"," ","G","r","o","u","p"," ","C","o","d","e">>,
     <<"P","r","o","c","e","s","s","i","n","g"," ","G","r","o","u","p"," ","D","e","s","c","r","i","p","t","i","o","n">>,
     <<"B","e","s","t"," ","E","x","t","e","r","n","a","l"," ","D","e","s","c","r","i","p","t","i","o","n"," ","-"," ","C","u","r","r","e","n","t">>,
     <<"C","u","r","r","e","n","t"," ","N","i","e","l","s","e","n"," ","I","t","e","m"," ","I","D">>,
     <<"P","r","e","d","i","c","t","e","d"," ","B","a","r","c","o","d","e"," ","-"," ","C","u","r","r","e","n","t">>,
     <<"P","r","i","c","e"," ","-"," ","C","u","r","r","e","n","t">>,
     <<"R","e","t","a","i","l","e","r"," ","S","K","U"," ","-"," ","C","u","r","r","e","n","t">>,
     <<"M","o","d","u","l","e">>,
     <<"B","r","a","n","d">>,
     <<"U","R","L">>,
     <<"C","a","t","e","g","o","r","y">>,
     <<"A","l","l","o","c","a","t","i","o","n">>,
     <<"Y","e","s","/","N","o">>,
     <<"G","I","C">>,
     <<"D","a","t","e">>
  >>

columns_lower == [k \in 1..Len(columns) |-> Lower(columns[k])]

\* ---------------------------------------------------------------- tables
Range(s) == {s[k] : k \in 1..Len(s)}

\* supported_extensions = (".csv", ".xlsx", ".xls")
supported_extensions ==
    { <<".","c","s","v">>, <<".","x","l","s","x">>, <<".","x","l","s">> }

\* [col for col in columns_lower if col not in df.columns]
\* (MissingColsFirstOnly: the search stops at the first missing column)
MissingColsFirstOnly(df_columns) ==
    LET all == SelectSeq(columns_lower, LAMBDA col : col \notin Range(df_columns))
    IN  IF all = <<>> THEN <<>> ELSE <<Head(all)>>

MissingCols(df_columns) ==
    SelectSeq(columns_lower, LAMBDA col : col \notin Range(df_columns))

\* positions of the columns of a header labelled key, ascending
Positions(header, key) ==
    SelectSeq([k \in 1..Len(header) |-> k], LAMBDA k : header[k] = key)

\* df[keys] on a header: for each key in turn, every column with that label
RECURSIVE GetItem(_, _)
GetItem(header, keys) ==
    IF keys = <<>> THEN <<>>
    ELSE LET at == Positions(header, Head(keys))
         IN  [k \in 1..Len(at) |-> header[at[k]]] \o GetItem(header, Tail(keys))

\* df.columns = labels raises ValueError (length mismatch) unless this holds
CanSetColumns(header, labels) == Len(header) = Len(labels)

\* df = df[columns_lower]; df.columns = columns
\* (after line 107 every key is a label of df, so df[columns_lower] raises no KeyError)
\* (ReorderKeepAll: neither the selection nor the renaming is done)
ReorderKeepAll(df) == [columns |-> df.columns, rows |-> df.rows]

Reorder(df) == [columns |-> columns, rows |-> df.rows]

\* columns of pd.concat(dfs): the labels of all frames, in order of first appearance
RECURSIVE ConcatColumns(_)
ConcatColumns(dfs) ==
    IF dfs = <<>> THEN <<>>
    ELSE LET before == ConcatColumns(SubSeq(dfs, 1, Len(dfs) - 1))
         IN  before \o SelectSeq(dfs[Len(dfs)].columns,
                                 LAMBDA c : c \notin Range(before))

\* rows of pd.concat(dfs, ignore_index=True): the frames' rows stacked in list order
\* (ConcatRowsNewestFirst: each frame is put before the frames stacked so far)
RECURSIVE ConcatRowsNewestFirst(_)
ConcatRowsNewestFirst(dfs) ==
    IF dfs = <<>> THEN <<>>
    ELSE dfs[Len(dfs)].rows \o ConcatRowsNewestFirst(SubSeq(dfs, 1, Len(dfs) - 1))

RECURSIVE ConcatRows(_)
ConcatRows(dfs) ==
    IF dfs = <<>> THEN <<>>
    ELSE ConcatRows(SubSeq(dfs, 1, Len(dfs) - 1)) \o dfs[Len(dfs)].rows

\* pd.concat(dfs_reorder, ignore_index=True)
Concat(dfs) == [columns |-> ConcatColumns(dfs), rows |-> ConcatRows(dfs)]

\* one st.* call
Message(call, text, file, arg) ==
    [call |-> call, text |-> text, file |-> file, arg |-> arg]

\* ---------------------------------------------------------------- inputs
UpperChar(c) ==
    IF \E k \in 1..Len(LowerCase) : LowerCase[k] = c
    THEN UpperCase[CHOOSE k \in 1..Len(LowerCase) : LowerCase[k] = c]
    ELSE c

\* a label in capitals
Upper(s) == [k \in 1..Len(s) |-> UpperChar(s[k])]

\* a label without the whitespace next to its hyphens: "Price-Current"
Tight(s) ==
    LET drop(k) == /\ s[k] \in Whitespace
                   /\ \/ (k > 1 /\ s[k - 1] = "-")
                      \/ (k < Len(s) /\ s[k + 1] = "-")
    IN  SelectSeq([k \in 1..Len(s) |-> IF drop(k) THEN "" ELSE s[k]],
                  LAMBDA c : c # "")

\* a label with more whitespace around it and after its hyphens: "  Price - \t Current\t"
Wide(s) ==
    <<" ", " ">>
      \o SelectSeq([k \in 1..(2 * Len(s)) |->
                      IF k % 2 = 1 THEN s[(k + 1) \div 2]
                      ELSE IF s[k \div 2] = "-" THEN "\t" ELSE ""],
                   LAMBDA c : c # "")
      \o <<"\t">>

Reverse(s) == [k \in 1..Len(s) |-> s[Len(s) + 1 - k]]

\* a header without the columns at the given positions
Without(header, gone) ==
    SelectSeq([k \in 1..Len(header) |-> IF k \in gone THEN <<>> ELSE header[k]],
              LAMBDA c : c # <<>>)

Notes == <<"N","o","t","e","s">>

date == <<"d","a","t","e">>

GIC == 15

PriceCurrent == 7

Date == 16

\* the headers a file of the archive may have
Headers ==
    { columns,
      \* other order, casing and hyphen spacing, one more column
      Reverse([k \in 1..Len(columns) |-> Upper(Tight(columns[k]))]) \o <<Notes>>,
      \* padded labels
      <<Notes>> \o [k \in 1..Len(columns) |-> Wide(columns[k])],
      \* columns missing
      Without(columns, {GIC}),
      Without([k \in 1..Len(columns) |-> Wide(Upper(columns[k]))], {PriceCurrent, Date}),
      \* two columns with the same normalised label
      columns \o <<date>>,
      Without(columns, {GIC}) \o <<date>> }

\* the rows of a table read from file `name`
Rows(name, n) == [r \in 1..n |-> [file |-> name, idx |-> r]]

\* the files that may sit at position k of the archive
Files(k) ==
    LET name == "f" \o ToString(k)
        File(suffix, readable, header, n) ==
            [name |-> name, suffix |-> suffix, readable |-> readable,
             table |-> [columns |-> header, rows |-> Rows(name, n)]]
    IN  { File(<<".","t","x","t">>, FALSE, <<>>, 0),          \* not a table file
          File(<<".","x","l","s","x">>, FALSE, <<>>, 0) }     \* corrupt workbook
        \cup { File(<<".","c","s","v">>, TRUE, h, MaxRows) : h \in Headers }
        \cup { File(<<".","X","L","S">>, TRUE, columns, n) : n \in 0..(MaxRows - 1) }

\* the archives of n files
RECURSIVE ArchivesOf(_)
ArchivesOf(n) ==
    IF n = 0 THEN {<<>>}
    ELSE {Append(a, f) : a \in ArchivesOf(n - 1), f \in Files(n)}

Archives == UNION {ArchivesOf(n) : n \in 0..MaxFiles}

Alphabet == {" ", "\t", "-", "a", "A"}

Labels == UNION { [1..n -> Alphabet] : n \in 0..MaxLabelLen }

\* ---------------------------------------------------------------- main()
Init ==
    /\ extracted_files \in Archives
    /\ pc = "start"
    /\ i = 1
    /\ all_dfs = <<>>
    /\ valid_files = <<>>
    /\ j = 1
    /\ missing_cols = <<>>
    /\ dfs_reorder = <<>>
    /\ merged_df = None
    /\ download = FALSE
    /\ msgs = <<>>
    /\ applied = <<>>

\* lines 42-44: the archive has no member
EmptyZip ==
    /\ pc = "start"
    /\ extracted_files = <<>>
    /\ msgs' = Append(msgs, Message("warning", "ZIP file is empty!", "", <<>>))
    /\ pc' = "done"
    /\ UNCHANGED <<extracted_files, i, all_dfs, valid_files, j, missing_cols,
                   dfs_reorder, merged_df, download, applied>>

\* lines 46-51
Extracted ==
    /\ pc = "start"
    /\ extracted_files # <<>>
    /\ msgs' = Append(msgs, Message("success", "Extracted files", "",
                                    <<Len(extracted_files)>>))
    /\ pc' = "read"
    /\ i' = 1
    /\ all_dfs' = <<>>
    /\ valid_files' = <<>>
    /\ UNCHANGED <<extracted_files, j, missing_cols, dfs_reorder, merged_df,
                   download, applied>>

\* lines 53-59: a file whose extension is not supported
SkipUnsupported ==
    /\ pc = "read"
    /\ i <= Len(extracted_files)
    /\ LET file == extracted_files[i]
           ext == Lower(file.suffix)
       IN  /\ ext \notin supported_extensions
           /\ msgs' = Append(msgs, Message("warning", "Skipped unsupported file",
                                           file.name, <<>>))
    /\ i' = i + 1
    /\ UNCHANGED <<extracted_files, pc, all_dfs, valid_files, j, missing_cols,
                   dfs_reorder, merged_df, download, applied>>

\* lines 61-70: the try block around pd.read_csv / pd.read_excel
\* (ReadNameFirst: valid_files.append(file) stands before the try block;
\*  ReadSilent: the st.info of line 68 is absent)
ReadNameFirst(file) ==
    /\ valid_files' = Append(valid_files, file.name)
    /\ IF file.readable
       THEN /\ all_dfs' = Append(all_dfs, file.table)
            /\ msgs' = Append(msgs, Message("info", "Read", file.name,
                                            <<Len(file.table.rows)>>))
       ELSE /\ all_dfs' = all_dfs
            /\ msgs' = Append(msgs, Message("error", "Error reading", file.name, <<>>))

ReadSilent(file) ==
    IF file.readable
    THEN /\ all_dfs' = Append(all_dfs, file.table)
         /\ valid_files' = Append(valid_files, file.name)
         /\ msgs' = msgs
    ELSE /\ msgs' = Append(msgs, Message("error", "Error reading", file.name, <<>>))
         /\ UNCHANGED <<all_dfs, valid_files>>

Read(file) ==
    IF file.readable
    THEN /\ all_dfs' = Append(all_dfs, file.table)
         /\ valid_files' = Append(valid_files, file.name)
         /\ msgs' = Append(msgs, Message("info", "Read", file.name,
                                         <<Len(file.table.rows)>>))
    ELSE /\ msgs' = Append(msgs, Message("error", "Error reading", file.name, <<>>))
         /\ UNCHANGED <<all_dfs, valid_files>>

\* lines 53-55, 61-68: the file is read
ReadOk ==
    /\ pc = "read"
    /\ i <= Len(extracted_files)
    /\ LET file == extracted_files[i]
           ext == Lower(file.suffix)
       IN  /\ ext \in supported_extensions
           /\ file.readable
           /\ Read(file)
    /\ i' = i + 1
    /\ UNCHANGED <<extracted_files, pc, j, missing_cols, dfs_reorder, merged_df,
                   download, applied>>

\* lines 53-55, 61-65, 69-70: pd.read_csv / pd.read_excel raises
ReadError ==
    /\ pc = "read"
    /\ i <= Len(extracted_files)
    /\ LET file == extracted_files[i]
           ext == Lower(file.suffix)
       IN  /\ ext \in supported_extensions
           /\ ~file.readable
           /\ Read(file)
    /\ i' = i + 1
    /\ UNCHANGED <<extracted_files, pc, j, missing_cols, dfs_reorder, merged_df,
                   download, applied>>

\* lines 72-74: no file was read
NoValidFiles ==
    /\ pc = "read"
    /\ i > Len(extracted_files)
    /\ all_dfs = <<>>
    /\ msgs' = Append(msgs, Message("error", "No valid CSV/Excel files found", "", <<>>))
    /\ pc' = "done"
    /\ UNCHANGED <<extracted_files, i, all_dfs, valid_files, j, missing_cols,
                   dfs_reorder, merged_df, download, applied>>

\* lines 72, 76-96: the loop over the tables begins
StartValidate ==
    /\ pc = "read"
    /\ i > Len(extracted_files)
    /\ all_dfs # <<>>
    /\ dfs_reorder' = <<>>
    /\ j' = 1
    /\ pc' = "validate"
    /\ UNCHANGED <<extracted_files, i, all_dfs, valid_files, missing_cols,
                   merged_df, download, msgs, applied>>

\* zip(valid_files, all_dfs) stops with the shorter list
ZipLen == IF Len(valid_files) <= Len(all_dfs) THEN Len(valid_files) ELSE Len(all_dfs)

\* lines 98-111: a table lacks expected columns
SkipMissing ==
    /\ pc = "validate"
    /\ j <= ZipLen
    /\ LET file == valid_files[j]
           normalized == Normalize(all_dfs[j].columns)
       IN  /\ all_dfs' = [all_dfs EXCEPT ![j].columns = normalized]
           /\ missing_cols' = MissingCols(normalized)
           /\ missing_cols' # <<>>
           /\ msgs' = Append(msgs, Message("error", "Skipped due to missing columns",
                                           file, missing_cols'))
    /\ j' = j + 1
    /\ UNCHANGED <<extracted_files, pc, i, valid_files, dfs_reorder, merged_df,
                   download, applied>>

\* lines 98-107, 113-115: a complete table is projected, renamed and kept
Accept ==
    /\ pc = "validate"
    /\ j <= ZipLen
    /\ LET normalized == Normalize(all_dfs[j].columns)
           df == [all_dfs[j] EXCEPT !.columns = normalized]
       IN  /\ all_dfs' = [all_dfs EXCEPT ![j] = df]
           /\ missing_cols' = MissingCols(normalized)
           /\ missing_cols' = <<>>
           /\ CanSetColumns(GetItem(normalized, columns_lower), columns)
           /\ dfs_reorder' = Append(dfs_reorder, Reorder(df))
    /\ j' = j + 1
    /\ UNCHANGED <<extracted_files, pc, i, valid_files, merged_df, download,
                   msgs, applied>>

\* lines 98-107, 113-114: df[columns_lower] has more than 16 columns, the
\* assignment to df.columns raises ValueError outside any try block
ReorderRaises ==
    /\ pc = "validate"
    /\ j <= ZipLen
    /\ LET normalized == Normalize(all_dfs[j].columns)
       IN  /\ all_dfs' = [all_dfs EXCEPT ![j].columns = normalized]
           /\ missing_cols' = MissingCols(normalized)
           /\ missing_cols' = <<>>
           /\ ~CanSetColumns(GetItem(normalized, columns_lower), columns)
    /\ pc' = "crashed"
    /\ UNCHANGED <<extracted_files, i, valid_files, j, dfs_reorder, merged_df,
                   download, msgs, applied>>

\* line 119: `not dfs_reorder` (NoneRead: `not all_dfs` in its place)
NoneRead == all_dfs = <<>>

NoneKept == dfs_reorder = <<>>

\* line 123: the list handed to pd.concat (AllRead: all_dfs in its place)
AllRead == all_dfs

ToMerge == dfs_reorder

\* lines 118-121: no table was kept
NothingToMerge ==
    /\ pc = "validate"
    /\ j > ZipLen
    /\ NoneKept
    /\ msgs' = Append(msgs, Message("error", "No files with complete columns to merge.",
                                    "", <<>>))
    /\ pc' = "done"
    /\ UNCHANGED <<extracted_files, i, all_dfs, valid_files, j, missing_cols,
                   dfs_reorder, merged_df, download, applied>>

\* lines 118-143: the kept tables are stacked, shown, saved and offered
Merge ==
    /\ pc = "validate"
    /\ j > ZipLen
    /\ ~NoneKept
    /\ merged_df' = <<Concat(ToMerge)>>
    /\ msgs' = Append(msgs, Message("success", "Merged files into rows", "",
                                    <<Len(ToMerge), Len(merged_df'[1].rows)>>))
    /\ download' = TRUE
    /\ pc' = "done"
    /\ UNCHANGED <<extracted_files, i, all_dfs, valid_files, j, missing_cols,
                   dfs_reorder, applied>>

\* lines 118-134, 145-146: the tables are stacked, writing the workbook raises
MergeSaveRaises ==
    /\ pc = "validate"
    /\ j > ZipLen
    /\ ~NoneKept
    /\ merged_df' = <<Concat(ToMerge)>>
    /\ msgs' = Append(Append(msgs, Message("success", "Merged files into rows", "",
                                           <<Len(ToMerge), Len(merged_df'[1].rows)>>)),
                      Message("error", "Error merging files", "", <<>>))
    /\ pc' = "done"
    /\ UNCHANGED <<extracted_files, i, all_dfs, valid_files, j, missing_cols,
                   dfs_reorder, download, applied>>

Next ==
    \/ EmptyZip
    \/ Extracted
    \/ SkipUnsupported
    \/ ReadOk
    \/ ReadError
    \/ NoValidFiles
    \/ StartValidate
    \/ SkipMissing
    \/ Accept
    \/ ReorderRaises
    \/ NothingToMerge
    \/ Merge
    \/ MergeSaveRaises

Spec == Init /\ [][Next]_vars

\* ---------------------------------------------------------------- the label pipeline alone
NormInit ==
    /\ extracted_files = <<>>
    /\ pc = "labels"
    /\ i = 1
    /\ all_dfs = <<>>
    /\ valid_files = <<>>
    /\ j = 1
    /\ missing_cols = <<>>
    /\ dfs_reorder = <<>>
    /\ merged_df = None
    /\ download = FALSE
    /\ msgs = <<>>
    /\ \E x \in Labels : applied = <<x>>

\* the pipeline of lines 100-104 applied to its own result
NormalizeAgain ==
    /\ pc = "labels"
    /\ Len(applied) < 3
    /\ applied' = Append(applied, NormalizeLabel(applied[Len(applied)]))
    /\ UNCHANGED <<extracted_files, pc, i, all_dfs, valid_files, j, missing_cols,
                   dfs_reorder, merged_df, download, msgs>>

NormNext == NormalizeAgain

NormSpec == NormInit /\ [][NormNext]_vars

\* ---------------------------------------------------------------- vocabulary of the claims
\* the file of the archive with a given name, and its position
FileNamed(name) == CHOOSE f \in Range(extracted_files) : f.name = name

Pos(name) == CHOOSE k \in 1..Len(extracted_files) : extracted_files[k].name = name

\* the expected columns, normalised
Required == [k \in 1..Len(columns) |-> NormalizeLabel(columns[k])]

\* the normalised form of every header a file may have
NormalizedHeader == [h \in Headers |-> Normalize(h)]

\* a file that is read into a table
IsTable(f) == Lower(f.suffix) \in supported_extensions /\ f.readable

\* the expected columns absent from the table of file f, as positions in `columns`
Absent(f) ==
    {k \in 1..Len(columns) : Required[k] \notin Range(NormalizedHeader[f.table.columns])}

\* a label of file f occurs twice after normalisation
HasDuplicates(f) ==
    LET h == NormalizedHeader[f.table.columns]
    IN  \E a, b \in 1..Len(h) : a # b /\ h[a] = h[b]

\* the files whose tables belong in the merged table
Mergeable == {f \in Range(extracted_files) : IsTable(f) /\ Absent(f) = {}}

\* the run is over
Ended == pc \in {"done", "crashed"}

\* the loop over the files of the archive is over
ReadLoopOver == pc \in {"validate", "done", "crashed"}

Count(P(_)) == Cardinality({k \in 1..Len(msgs) : P(msgs[k])})

\* per-file messages of file `name`
MessagesOf(name) == Count(LAMBDA m : m.file = name)

ReadStageOf(name) ==
    Count(LAMBDA m : m.file = name /\ m.text \in {"Skipped unsupported file",
                                                   "Read", "Error reading"})

SkippedOf(name) ==
    Count(LAMBDA m : m.file = name /\ m.text = "Skipped due to missing columns")

RECURSIVE SumRows(_)
SumRows(files) ==
    IF files = {} THEN 0
    ELSE LET f == CHOOSE g \in files : TRUE
         IN  Len(f.table.rows) + SumRows(files \ {f})

\* the table validated last, as a position of valid_files (0: none yet)
LastValidated ==
    IF pc = "crashed" THEN j
    ELSE IF pc = "validate" \/ (pc = "done" /\ all_dfs # <<>>) THEN j - 1
    ELSE 0

\* ---------------------------------------------------------------- claims
\* C1: every table appended to dfs_reorder, and the merged table, has exactly the
\* 16 expected labels as its header, in the expected order and casing, whatever
\* the order, casing, hyphen spacing and extra columns of the file it came from.
C1_CanonicalHeader ==
    /\ \A k \in 1..Len(dfs_reorder) : dfs_reorder[k].columns = columns
    /\ merged_df # None => merged_df[1].columns = columns

\* a kept table whose file had another order, casing, spacing and one more column
C1_Witness ==
    \E k \in 1..Len(dfs_reorder) :
        /\ dfs_reorder[k].rows # <<>>
        /\ LET h == FileNamed(dfs_reorder[k].rows[1].file).table.columns
           IN  /\ Len(h) > Len(columns)
               /\ Notes \in Range(h)
               /\ h[1] # columns[1]

\* C2: the list of missing columns of a validated table is empty iff every expected
\* column (normalised) is among the table's normalised labels; otherwise it holds
\* exactly the absent expected columns, each once, in the expected order; the table
\* takes the skip branch (message and continue) exactly when the list is not empty.
C2_MissingColumns ==
    LastValidated >= 1 =>
        LET f == FileNamed(valid_files[LastValidated])
            at(m) == CHOOSE k \in 1..Len(columns) : Required[k] = missing_cols[m]
        IN  /\ (missing_cols = <<>>) <=> (Absent(f) = {})
            /\ \A m \in 1..Len(missing_cols) :
                   \E k \in Absent(f) : Required[k] = missing_cols[m]
            /\ \A k \in Absent(f) :
                   \E m \in 1..Len(missing_cols) : missing_cols[m] = Required[k]
            /\ \A m, n \in 1..Len(missing_cols) : m < n => at(m) < at(n)
            /\ (missing_cols # <<>>) <=> (SkippedOf(f.name) = 1)
            /\ missing_cols # <<>> =>
                   \A k \in 1..Len(dfs_reorder) :
                       \A r \in 1..Len(dfs_reorder[k].rows) :
                           dfs_reorder[k].rows[r].file # f.name

\* a table that lacks two expected columns has been validated
C2_Witness ==
    /\ LastValidated >= 1
    /\ Len(missing_cols) = 2
    /\ missing_cols[1] = Required[PriceCurrent]
    /\ missing_cols[2] = Required[Date]

\* C3: once a file has failed to read or has been skipped for missing columns,
\* every file after it in the archive still gets its own outcome by the end of
\* the run: unsupported, read failure, missing columns, or merged.
C3_FollowersProcessed ==
    Ended =>
        \A p, q \in 1..Len(extracted_files) :
            LET a == extracted_files[p]
                b == extracted_files[q]
            IN  (/\ p < q
                 /\ \/ Count(LAMBDA m : m.file = a.name /\ m.text = "Error reading") = 1
                    \/ SkippedOf(a.name) = 1)
                => \/ ReadStageOf(b.name) = 1 /\ ~IsTable(b)
                   \/ SkippedOf(b.name) = 1
                   \/ /\ merged_df # None
                      /\ b \in Mergeable

\* C4: in the merged table the rows of a file that comes earlier in the archive
\* stand before the rows of a file that comes later, and the rows of one file
\* keep the order they had in the file.
C4_OrderPreserved ==
    merged_df # None =>
        LET rows == merged_df[1].rows
        IN  \A p, q \in 1..Len(rows) :
                p < q => \/ Pos(rows[p].file) < Pos(rows[q].file)
                         \/ /\ rows[p].file = rows[q].file
                            /\ rows[p].idx < rows[q].idx

\* two files with two rows each have been merged
C4_Witness ==
    /\ merged_df # None
    /\ LET rows == merged_df[1].rows
       IN  /\ Len(rows) >= 4
           /\ rows[1].file # rows[Len(rows)].file
           /\ rows[1].file = rows[2].file

\* C5: a merged table has as many rows as the tables that are read and complete
\* have together, and they are the rows of those tables; unread and incomplete
\* tables contribute none.
C5_RowCount ==
    merged_df # None =>
        /\ Len(merged_df[1].rows) = SumRows(Mergeable)
        /\ Range(merged_df[1].rows) = UNION {Range(f.table.rows) : f \in Mergeable}

\* a merge of a batch in which one table with rows was skipped
C5_Witness ==
    /\ merged_df # None
    /\ merged_df[1].rows # <<>>
    /\ \E f \in Range(extracted_files) :
           IsTable(f) /\ Absent(f) # {} /\ f.table.rows # <<>>

\* a batch with at least one table in which every table lacks an expected column
AllInvalid ==
    /\ \E f \in Range(extracted_files) : IsTable(f)
    /\ \A f \in Range(extracted_files) : IsTable(f) => Absent(f) # {}

\* C6: when every table of the batch lacks an expected column, no merged table is
\* produced, nothing is offered for download, and by the end of the run "No files
\* with complete columns to merge." has been reported once and the missing
\* columns of every table have been reported.
C6_AllInvalid ==
    AllInvalid =>
        /\ merged_df = None
        /\ ~download
        /\ pc # "crashed"
        /\ Count(LAMBDA m : m.text = "Merged files into rows") = 0
        /\ pc = "done" =>
              /\ Count(LAMBDA m : m.text = "No files with complete columns to merge.") = 1
              /\ \A f \in Range(extracted_files) :
                     IsTable(f) => SkippedOf(f.name) = 1

\* the end of a run over two tables that both lack expected columns
C6_Witness ==
    /\ AllInvalid
    /\ pc = "done"
    /\ Len(all_dfs) = 2

\* C7 as stated: by the end of the run every file of the archive has exactly one
\* per-file message.
C7_ExactlyOneMessage ==
    pc = "done" =>
        \A k \in 1..Len(extracted_files) : MessagesOf(extracted_files[k].name) = 1

\* C7 as amended: the loop over the files gives every file exactly one message
\* (unsupported, error reading, or read); a file that was read gets a second
\* message, the missing columns, when it is skipped by the loop over the tables,
\* and no other; a file kept for the merge gets no message of its own.
C7_OneOrTwoMessages ==
    ReadLoopOver =>
        \A k \in 1..Len(extracted_files) :
            LET f == extracted_files[k]
            IN  /\ ReadStageOf(f.name) = 1
                /\ MessagesOf(f.name) = ReadStageOf(f.name) + SkippedOf(f.name)
                /\ SkippedOf(f.name) <= 1
                /\ SkippedOf(f.name) = 1 => IsTable(f) /\ Absent(f) # {}
                /\ (pc = "done" /\ IsTable(f) /\ Absent(f) # {}) => SkippedOf(f.name) = 1

\* the end of a run in which one file was read and skipped and another was kept
C7_Witness ==
    /\ pc = "done"
    /\ \E f \in Range(extracted_files) : MessagesOf(f.name) = 2
    /\ \E f \in Mergeable : MessagesOf(f.name) = 1

\* C8: normalising a normalised label changes nothing, also for labels that begin
\* or end with a hyphen and labels with adjacent hyphens.
C8_Idempotent ==
    Len(applied) = 3 => applied[3] = applied[2]

\* a label that begins with two hyphens has been normalised twice
C8_Witness ==
    /\ Len(applied) = 3
    /\ Len(applied[1]) >= 3
    /\ applied[1][1] = "-"
    /\ applied[1][2] = "-"
    /\ applied[1][Len(applied[1])] = "-"
    /\ applied[2] # applied[1]

\* C9: a complete table with two labels that normalise to the same expected label
\* does not make the projection step raise.
C9_DuplicatesDoNotCrash ==
    \A k \in 1..Len(valid_files) :
        LET f == FileNamed(valid_files[k])
        IN  (HasDuplicates(f) /\ Absent(f) = {}) => ~(pc = "crashed" /\ j = k)

\* C10: valid_files and all_dfs have the same length, their entries at the same
\* position come from the same file, they follow the order of the archive, and a
\* missing-columns message names the file whose table lacks exactly those columns.
C10_Pairing ==
    /\ Len(valid_files) = Len(all_dfs)
    /\ \A k \in 1..Len(valid_files) :
           /\ \E f \in Range(extracted_files) : f.name = valid_files[k]
           /\ k <= Len(all_dfs) =>
                  LET t == FileNamed(valid_files[k]).table
                  IN  /\ all_dfs[k].rows = t.rows
                      /\ all_dfs[k].columns \in {t.columns, NormalizedHeader[t.columns]}
    /\ \A k, m \in 1..Len(valid_files) : k < m => Pos(valid_files[k]) < Pos(valid_files[m])
    /\ \A n \in 1..Len(msgs) :
           msgs[n].text = "Skipped due to missing columns" =>
               /\ \E f \in Range(extracted_files) : f.name = msgs[n].file /\ IsTable(f)
               /\ Range(msgs[n].arg) = {Required[k] : k \in Absent(FileNamed(msgs[n].file))}

\* a file that is not read precedes a table that is skipped
C10_Witness ==
    /\ Len(extracted_files) >= 2
    /\ ~IsTable(extracted_files[1])
    /\ Len(valid_files) = 1
    /\ SkippedOf(valid_files[1]) = 1

====
